---------------------------- MODULE Spec2Model ----------------------------
(***************************************************************************)
(* Model of package reopen (owarai/reopen): ReopenableWriteSyncer, a byte  *)
(* sink bound to a file path that reopens the path on a signal.            *)
(*                                                                         *)
(* The repository holds two versions of the type:                          *)
(*   src/writesyncer.go   - watch returns on closing and on a failed       *)
(*                          reload; Close returns the file's close error   *)
(*   src/unnamed/part_000 - watch only breaks out of the select (the loop  *)
(*                          goes on); Close discards the close error       *)
(* The variable impl says which one runs; everything else is shared.       *)
(*                                                                         *)
(* Goroutines are modelled as processes whose steps are the accesses to    *)
(* shared state: the atomic Load/Store of cur, the channel operations and  *)
(* the calls on *os.File.  Handles are numbered in the order they are      *)
(* opened; each handle refers to an inode, whose content is the sequence   *)
(* of bytes appended to it.  The rotation agent renames the file at the    *)
(* path away, so that the next open creates a fresh inode; a rotation is   *)
(* seen by the program only at its next open, where it is chosen.          *)
(***************************************************************************)
EXTENDS Integers, Sequences, FiniteSets, TLC

\* ---- bounds of the model
MaxInFlight  == 2    \* Write and Sync calls in progress at once
MaxCalls     == 2    \* Write and Sync calls issued in total
MaxCloses    == 2    \* Close calls issued in total
MaxOpens     == 3    \* handles opened in total (the initial one included)
MaxOpenFails == 1    \* failed os.OpenFile calls in reload
TickStep     == 10   \* seconds that pass in one step of time

\* ---- program constants
Grace == 10          \* time.Sleep(time.Second * 10)
Null  == 0           \* the zero atomic.Value: no *os.File stored

Handles == 1..MaxOpens
Inodes  == 1..MaxOpens
Impls   == {"writesyncer", "part_000"}

VARIABLES
    impl,       \* which version of the source runs
    newErr,     \* the error New returned ("nil": it returned a sink)
    subscribed, \* signal.Notify registered ws.reopenSig for the signal
    cur,        \* ws.cur: the handle stored in the atomic.Value
    nOpened,    \* handles opened so far; handle k is the k-th opened
    ino,        \* handle -> inode it refers to (0: not opened)
    nInodes,    \* inodes created so far
    content,    \* inode -> bytes appended to it
    closes,     \* handle -> who made each close call on it, in order
    age,        \* handle -> seconds since a later handle was published over it,
                \* counted up to Grace (-1: not superseded)
    pending,    \* deferred-closure goroutines: set of [h, left], left the
                \* seconds it still sleeps
    sig,        \* signals buffered in ws.reopenSig (capacity 1)
    closing,    \* ws.closing has been closed
    watchPc,    \* position of the watch goroutine
    oldDest,    \* reload's local oldDest
    openFails,  \* failed opens so far
    wr,         \* Write/Sync calls in progress, past getFile: set of [id, op, h]
    nCalls,     \* Write/Sync calls issued so far
    done,       \* completed Write/Sync calls: set of [id, op, h, err, n]
    nClose,     \* Close calls issued so far
    cl,         \* the Close call that got past close(ws.closing)
    panicked    \* a goroutine panicked: the process is gone

vars == <<impl, newErr, subscribed, cur, nOpened, ino, nInodes, content, closes, age,
          pending, sig, closing, watchPc, oldDest, openFails, wr, nCalls, done,
          nClose, cl, panicked>>

newVars   == <<impl, newErr, subscribed>>
fsVars    == <<ino, nInodes, content>>
watchVars == <<watchPc, oldDest, openFails>>
callVars  == <<wr, nCalls, done>>
closeVars == <<nClose, cl>>

\* ---- helpers over *os.File
IsClosed(h) == Len(closes[h]) > 0
ClosedBy(h) == {closes[h][i] : i \in DOMAIN closes[h]}

\* p []byte of call id: id bytes, each of value id
Payload(id) == [i \in 1..id |-> id]

\* number of bytes of call id found in inode f
BytesIn(id, f) == Cardinality({i \in DOMAIN content[f] : content[f][i] = id})

\* bytes found in the inodes 1..k
RECURSIVE BytesFound(_)
BytesFound(k) == IF k = 0 THEN 0 ELSE Len(content[k]) + BytesFound(k - 1)

\* sum of the byte counts returned by the calls in D
RECURSIVE BytesReturned(_)
BytesReturned(D) ==
    IF D = {} THEN 0
    ELSE LET d == CHOOSE x \in D : TRUE IN d.n + BytesReturned(D \ {d})

NoClose == [pc |-> "none", h |-> Null, err |-> "none", ret |-> "none"]

\* a sink exists and its process is alive
Running == newErr = "nil" /\ ~panicked

\* (mutant) getFile returns a stale copy of the slot: the handle before the
\* one last published
getFileStale == IF cur > 1 THEN cur - 1 ELSE cur

\* ws.getFile(): one atomic Load of ws.cur
getFile == cur

\* ---- New
\* errors of the first os.OpenFile
OpenErrs == {"EACCES"}

\* (mutant) New subscribes to the signal and starts watch before it opens
\* the file
SubscribedEarly(err) == err \in {"nil"} \cup OpenErrs

\* signal.Notify and go ws.watch() come after the return on a failed open
Subscribed(err) == err = "nil"

\* the state New leaves when its open returned err
New(err) ==
    /\ newErr = err
    /\ subscribed = Subscribed(err)
    /\ watchPc = (IF Subscribed(err) THEN "select" ELSE "notstarted")
    /\ cur = (IF err = "nil" THEN 1 ELSE Null)
    /\ nOpened = (IF err = "nil" THEN 1 ELSE 0)
    /\ ino = [h \in Handles |-> IF h = 1 /\ err = "nil" THEN 1 ELSE 0]
    /\ nInodes = (IF err = "nil" THEN 1 ELSE 0)

Init ==
    /\ impl \in Impls
    /\ \E err \in {"nil"} \cup OpenErrs : New(err)
    /\ content = [f \in Inodes |-> <<>>]
    /\ closes = [h \in Handles |-> <<>>]
    /\ age = [h \in Handles |-> -1]
    /\ pending = {}
    /\ sig = 0
    /\ closing = FALSE
    /\ oldDest = Null
    /\ openFails = 0
    /\ wr = {}
    /\ nCalls = 0
    /\ done = {}
    /\ nClose = 0
    /\ cl = NoClose
    /\ panicked = FALSE

\* ---- the environment
\* time passes: every sleeping goroutine has TickStep seconds less to sleep
Min(a, b) == IF a < b THEN a ELSE b
Max(a, b) == IF a > b THEN a ELSE b

Tick ==
    /\ Running
    /\ \/ \E h \in Handles : age[h] >= 0 /\ age[h] < Grace
       \/ \E t \in pending : t.left > 0
    /\ age' = [h \in Handles |-> IF age[h] < 0 THEN age[h] ELSE Min(age[h] + TickStep, Grace)]
    /\ pending' = {[h |-> t.h, left |-> Max(t.left - TickStep, 0)] : t \in pending}
    /\ UNCHANGED <<newVars, cur, nOpened, fsVars, closes, sig, closing,
                   watchVars, callVars, closeVars, panicked>>

\* a reopen signal arrives: signal.Notify sends without blocking, so a signal
\* that finds the buffer full is dropped
DeliverSignal ==
    /\ ~panicked
    /\ subscribed
    /\ sig' = 1
    /\ UNCHANGED <<newVars, cur, nOpened, fsVars, closes, age, pending, closing,
                   watchVars, callVars, closeVars, panicked>>

\* ---- watch: the signal loop
\* where watch goes after case <-ws.closing
AfterClosing == IF impl = "writesyncer" THEN "exited" ELSE "select"

\* where watch goes after reload returned an error
AfterReloadErr == IF impl = "writesyncer" THEN "exited" ELSE "select"

\* select picks case <-ws.closing (ready once the channel is closed)
WatchClosing ==
    /\ Running
    /\ watchPc = "select"
    /\ closing
    /\ watchPc' = AfterClosing
    /\ UNCHANGED <<newVars, cur, nOpened, fsVars, closes, age, pending, sig, closing,
                   oldDest, openFails, callVars, closeVars, panicked>>

\* (mutant) the loop hands each signal to a reload of its own (go ws.reload())
\* and goes on receiving while one is in progress
WatchSignalAnytime ==
    /\ Running
    /\ watchPc \in {"select", "reload"}
    /\ sig = 1
    /\ sig' = 0
    /\ oldDest' = getFile
    /\ watchPc' = "reload"
    /\ UNCHANGED <<newVars, cur, nOpened, fsVars, closes, age, pending, closing,
                   openFails, callVars, closeVars, panicked>>

\* select picks case <-ws.reopenSig (ready when a signal is buffered; when both
\* cases are ready the select takes either) and reload begins:
\* oldDest := ws.getFile()
WatchSignal ==
    /\ Running
    /\ watchPc = "select"
    /\ sig = 1
    /\ sig' = 0
    /\ oldDest' = getFile
    /\ watchPc' = "reload"
    /\ UNCHANGED <<newVars, cur, nOpened, fsVars, closes, age, pending, closing,
                   openFails, callVars, closeVars, panicked>>

\* ---- reload and open
\* inode that os.OpenFile(path, O_WRONLY|O_APPEND|O_CREATE) opens: the one last
\* created at the path, or a fresh one when the rotation agent has renamed that
\* one away since (rotated)
OpenedInode(rotated) == IF rotated THEN nInodes + 1 ELSE nInodes

\* open succeeds: os.OpenFile returns a new handle and ws.cur.Store publishes it
OpenOk ==
    /\ nOpened < MaxOpens
    /\ nOpened' = nOpened + 1
    /\ \E rotated \in BOOLEAN :
          /\ ino' = [ino EXCEPT ![nOpened + 1] = OpenedInode(rotated)]
          /\ nInodes' = OpenedInode(rotated)
    /\ cur' = nOpened + 1
    /\ age' = [age EXCEPT ![cur] = 0]
    /\ UNCHANGED content

\* open fails: os.OpenFile returns an error and open returns it before the Store
OpenFail ==
    /\ openFails < MaxOpenFails
    /\ openFails' = openFails + 1
    /\ UNCHANGED <<cur, nOpened, fsVars, age>>

\* (mutant) the goroutine closes the handle just published
DeferredTargetNew == nOpened + 1

\* the handle the deferred-closure goroutine closes
DeferredTarget == oldDest

\* (mutant) the goroutine sleeps 10 milliseconds: no time, counted in seconds
SleepMillis == Grace \div 1000

\* the time the deferred-closure goroutine sleeps: time.Sleep(time.Second * 10)
SleepTime == Grace

\* go func() { time.Sleep(time.Second * 10); _ = oldDest.Close() }()
Deferred == [h |-> DeferredTarget, left |-> SleepTime]

\* (mutant) reload ignores the error of open and starts the closure of oldDest
DeferredOnErrOld == {Deferred}

\* the goroutines reload starts when open returned an error: none, it returns
\* the error first
DeferredOnErr == {}

\* (mutant) reload sleeps and closes oldDest itself instead of in a goroutine
AfterReloadInline == IF SleepTime > 0 THEN "sleep" ELSE "select"

\* where watch is after reload started the goroutine: go func() returns at
\* once, reload returns nil, watch is back at the select
AfterReload == "select"

\* reload after a successful open: starts the deferred closure of oldDest and
\* returns nil; watch goes back to the select
ReloadOpenOk ==
    /\ Running
    /\ watchPc = "reload"
    /\ OpenOk
    /\ pending' = pending \cup {Deferred}
    /\ oldDest' = Null
    /\ watchPc' = AfterReload
    /\ UNCHANGED <<newVars, closes, sig, closing, openFails, callVars, closeVars,
                   panicked>>

\* reload after a failed open: returns the error to watch
ReloadOpenFail ==
    /\ Running
    /\ watchPc = "reload"
    /\ OpenFail
    /\ pending' = pending \cup DeferredOnErr
    /\ oldDest' = Null
    /\ watchPc' = AfterReloadErr
    /\ UNCHANGED <<newVars, closes, sig, closing, callVars, closeVars, panicked>>

\* a deferred-closure goroutine wakes up and closes its handle, ignoring the error
DeferredClose(t) ==
    /\ Running
    /\ t \in pending
    /\ t.left = 0
    /\ closes' = [closes EXCEPT ![t.h] = Append(@, "deferred")]
    /\ pending' = pending \ {t}
    /\ UNCHANGED <<newVars, cur, nOpened, fsVars, age, sig, closing, watchVars,
                   callVars, closeVars, panicked>>

\* ---- Write and Sync
\* ws.getFile() of a Write or Sync call
GetFile(op) ==
    /\ Running
    /\ Cardinality(wr) < MaxInFlight
    /\ nCalls < MaxCalls
    /\ nCalls' = nCalls + 1
    /\ wr' = wr \cup {[id |-> nCalls + 1, op |-> op, h |-> getFile]}
    /\ UNCHANGED <<newVars, cur, nOpened, fsVars, closes, age, pending, sig, closing,
                   watchVars, done, closeVars, panicked>>

WriteGetFile == GetFile("Write")
SyncGetFile  == GetFile("Sync")

\* (mutant) the call loads the slot again when it operates
CallTargetReread(c) == cur

\* the handle call c operates on: the one its getFile returned
CallTarget(c) == c.h

\* the completed call, as its caller sees it
Completed(c, err, n) == [id |-> c.id, op |-> c.op, h |-> c.h, err |-> err, n |-> n]

\* (*os.File).Write(p) on the loaded handle: on a closed handle it returns
\* (0, ErrClosed); on an open one it appends p to the handle's inode
WriteFile(c) ==
    /\ Running
    /\ c \in wr
    /\ c.op = "Write"
    /\ LET h == CallTarget(c)
           p == Payload(c.id)
       IN  IF IsClosed(h)
           THEN /\ content' = content
                /\ done' = done \cup {Completed(c, "ErrClosed", 0)}
           ELSE /\ content' = [content EXCEPT ![ino[h]] = @ \o p]
                /\ done' = done \cup {Completed(c, "nil", Len(p))}
    /\ wr' = wr \ {c}
    /\ UNCHANGED <<newVars, cur, nOpened, ino, nInodes, closes, age, pending,
                   sig, closing, watchVars, nCalls, closeVars, panicked>>

\* (mutant) a Sync that finds its handle closed asks the loop for a reopen
SyncFileReopens(c) ==
    /\ Running
    /\ c \in wr
    /\ c.op = "Sync"
    /\ LET h == CallTarget(c)
       IN  /\ done' = done \cup {Completed(c, IF IsClosed(h) THEN "ErrClosed" ELSE "nil", 0)}
           /\ sig' = IF IsClosed(h) THEN 1 ELSE sig
    /\ wr' = wr \ {c}
    /\ UNCHANGED <<newVars, cur, nOpened, fsVars, closes, age, pending, closing,
                   watchVars, nCalls, closeVars, panicked>>

\* (*os.File).Sync() on the loaded handle
SyncFile(c) ==
    /\ Running
    /\ c \in wr
    /\ c.op = "Sync"
    /\ LET h == CallTarget(c)
       IN  done' = done \cup {Completed(c, IF IsClosed(h) THEN "ErrClosed" ELSE "nil", 0)}
    /\ wr' = wr \ {c}
    /\ UNCHANGED <<newVars, cur, nOpened, fsVars, closes, age, pending, sig, closing,
                   watchVars, nCalls, closeVars, panicked>>

\* ---- Close
\* a goroutine panics and nothing recovers: the process ends, and with it
\* every goroutine, the calls in progress and the buffered signal; the files
\* and what the calls that returned have returned remain
Panic ==
    /\ panicked' = TRUE
    /\ watchPc' = "gone"
    /\ oldDest' = Null
    /\ pending' = {}
    /\ wr' = {}
    /\ sig' = 0
    /\ cl' = IF cl.pc = "returned" THEN cl ELSE NoClose
    /\ UNCHANGED <<newVars, cur, nOpened, fsVars, closes, age, closing, openFails,
                   nCalls, done>>

\* close(ws.closing), the first statement of Close: closing a closed channel
\* panics
CloseChan ==
    /\ Running
    /\ nClose < MaxCloses
    /\ nClose' = nClose + 1
    /\ IF closing
       THEN Panic
       ELSE /\ closing' = TRUE
            /\ cl' = [cl EXCEPT !.pc = "signalled"]
            /\ UNCHANGED <<newVars, cur, nOpened, fsVars, closes, age, pending, sig,
                           watchVars, callVars, panicked>>

\* ws.getFile() of Close
CloseGetFile ==
    /\ Running
    /\ cl.pc = "signalled"
    /\ cl' = [cl EXCEPT !.pc = "loaded", !.h = getFile]
    /\ UNCHANGED <<newVars, cur, nOpened, fsVars, closes, age, pending, sig, closing,
                   watchVars, callVars, nClose, panicked>>

\* errors (*os.File).Close() can return on handle h
FileCloseErrs(h) == IF IsClosed(h) THEN {"ErrClosed"} ELSE {"nil", "EIO"}

\* what Close returns when closing the file returned e
CloseReturn(e) == IF impl = "writesyncer" THEN e ELSE "nil"

\* (mutant) Close only stops the loop and leaves the file open
CloseFileLoopOnly ==
    /\ Running
    /\ cl.pc = "loaded"
    /\ cl' = [cl EXCEPT !.pc = "returned", !.err = "nil", !.ret = CloseReturn("nil")]
    /\ UNCHANGED <<newVars, cur, nOpened, fsVars, closes, age, pending, sig, closing,
                   watchVars, callVars, nClose, panicked>>

\* (*os.File).Close() on the loaded handle, and the return of Close
CloseFile ==
    /\ Running
    /\ cl.pc = "loaded"
    /\ \E e \in FileCloseErrs(cl.h) :
          cl' = [cl EXCEPT !.pc = "returned", !.err = e, !.ret = CloseReturn(e)]
    /\ closes' = [closes EXCEPT ![cl.h] = Append(@, "Close")]
    /\ UNCHANGED <<newVars, cur, nOpened, fsVars, age, pending, sig, closing,
                   watchVars, callVars, nClose, panicked>>

Next ==
    \/ Tick
    \/ DeliverSignal
    \/ WatchClosing
    \/ WatchSignal
    \/ ReloadOpenOk
    \/ ReloadOpenFail
    \/ \E t \in pending : DeferredClose(t)
    \/ WriteGetFile
    \/ SyncGetFile
    \/ \E c \in wr : WriteFile(c)
    \/ \E c \in wr : SyncFile(c)
    \/ CloseChan
    \/ CloseGetFile
    \/ CloseFile

Spec == Init /\ [][Next]_vars


\* ======================================================================
\* Properties
\* ======================================================================

\* the calls that take their getFile step, and those that return, in a step
Loading   == wr' \ wr
Returning == IF panicked' THEN {} ELSE wr \ wr'

\* what the returning call c returns
Ret(c) == CHOOSE d \in done' : d.id = c.id

Writes(D) == {d \in D : d.op = "Write"}

\* ---- C1
\* C1 (as claimed): whenever a Write performs the write on the handle it
\* loaded, that handle is non-null and has not been closed by the sink.
C1_WriteOnOpenHandle ==
    [][\A c \in Writes(Returning) : c.h # Null /\ ~IsClosed(c.h)]_vars

\* C1 (amended): the handle a Write loads is non-null; when it is loaded it has
\* not been closed by a deferred-closure task, and not closed at all unless
\* Close has been called; when the write is performed the handle is still open
\* unless Close has been called or the grace interval since its supersession
\* has elapsed.
C1_LoadedHandleValid ==
    [][/\ \A c \in Writes(Loading) :
             /\ c.h # Null
             /\ "deferred" \notin ClosedBy(c.h)
             /\ IsClosed(c.h) => closing
       /\ \A c \in Writes(Returning) :
             IsClosed(c.h) => closing \/ age[c.h] >= Grace]_vars

\* a Write has returned after a reopen, a deferred closure and a Close all ran
C1_Witness ==
    /\ \E d \in Writes(done) : d.err = "nil"
    /\ \E h \in Handles : "deferred" \in ClosedBy(h)
    /\ cl.pc = "returned"
    /\ nOpened > 1

\* ---- C2
\* C2 (as claimed): while only reopens run beside the writers, the bytes of every
\* Write that returned are found exactly once, whole, in the generation whose
\* handle it captured and nowhere else.
C2_NoWriteDropped ==
    ~closing =>
        \A d \in Writes(done) :
            /\ BytesIn(d.id, ino[d.h]) = Len(Payload(d.id))
            /\ \A f \in Inodes : f # ino[d.h] => BytesIn(d.id, f) = 0

\* C2 (amended): a Write that returns without error has all its bytes exactly
\* once in the generation whose handle it captured and nowhere else; a Write
\* whose handle was closed before the write was performed returns an error and
\* the count 0 and its bytes are in no generation; no bytes of a call still in
\* progress are anywhere; and the byte counts returned add up to the bytes found
\* in all generations.
C2_WritesAccounted ==
    /\ \A d \in Writes(done) :
          /\ d.n = IF d.err = "nil" THEN Len(Payload(d.id)) ELSE 0
          /\ BytesIn(d.id, ino[d.h]) = d.n
          /\ \A f \in Inodes : f # ino[d.h] => BytesIn(d.id, f) = 0
    /\ \A c \in wr : \A f \in Inodes : BytesIn(c.id, f) = 0
    /\ BytesFound(MaxOpens) = BytesReturned(done)

\* two Writes returned without error, their bytes in two generations
C2_Witness ==
    \E d1, d2 \in Writes(done) :
        /\ d1.err = "nil" /\ d2.err = "nil"
        /\ ino[d1.h] # ino[d2.h]
        /\ BytesIn(d1.id, ino[d1.h]) > 0 /\ BytesIn(d2.id, ino[d2.h]) > 0

OpenFails == openFails' > openFails

\* C4: when the open step of a reopen fails, the slot still holds the handle
\* that was current when the reopen began, no file is opened, no deferred closure
\* is scheduled, and that handle is open (so that Writes on it succeed) unless
\* Close has been called.
C4_FailedOpenKeepsHandle ==
    [][OpenFails =>
          /\ cur' = cur /\ cur' = oldDest
          /\ nOpened' = nOpened /\ ino' = ino
          /\ pending' = pending
          /\ age'[cur'] < 0
          /\ ~closing => ~IsClosed(cur')]_vars

\* an open has failed and a Write on the handle still current has succeeded
C4_Witness ==
    /\ openFails > 0
    /\ ~closing
    /\ \E d \in Writes(done) : d.h = cur /\ d.err = "nil" /\ BytesIn(d.id, ino[cur]) > 0

\* ---- C5
\* C5 (as claimed): after a reopen whose open step failed, and while Close has
\* not been called, the signal loop is still running (so that it takes the next
\* signal and publishes the handle its open returns).
C5_LoopRunsAfterFailedReopen ==
    openFails > 0 /\ ~closing /\ ~panicked => watchPc # "exited"

\* ---- C6
\* C6 (as claimed): a second call of Close, after or during the first one, does
\* not panic.
C6_SecondCloseDoesNotPanic ==
    nClose >= 2 => ~panicked

\* ---- C7
\* C7 (as claimed): a close call on a handle that a reopen has superseded is
\* made by its deferred-closure task, not by Close, and not before the grace
\* interval since it was superseded has elapsed.
C7_OldHandleClosedByItsTaskOnly ==
    [][\A h \in Handles :
          age[h] >= 0 /\ closes'[h] # closes[h] =>
              /\ closes'[h] = Append(closes[h], "deferred")
              /\ age[h] >= Grace]_vars

\* ---- C8
\* C8 (as claimed): while Close has not been called, a Write returns without
\* error, however long it took since it loaded its handle.
C8_SlowWriteSucceeds ==
    [][~closing => \A c \in Writes(Returning) : Ret(c).err = "nil"]_vars

\* C8 (amended): a Write that captured a handle returns without error, all
\* bytes written, when the write is performed before Close is called and before
\* the grace interval since the handle was superseded has elapsed; a Write still
\* in progress when its handle is closed returns the closed-file error and
\* writes nothing.
C8_WriteSucceedsWithinGrace ==
    [][\A c \in Writes(Returning) :
          /\ ~closing /\ age[c.h] < Grace
                => Ret(c).err = "nil" /\ Ret(c).n = Len(Payload(c.id))
          /\ IsClosed(c.h)
                => Ret(c).err = "ErrClosed" /\ Ret(c).n = 0 /\ content' = content]_vars

\* a Write is still in progress on a handle its deferred closure has closed
C8_Witness ==
    \E c \in Writes(wr) : "deferred" \in ClosedBy(c.h) /\ ~closing

\* ---- C9
\* C9 (as claimed): once closing is signalled, the signal loop takes no signal
\* to reopen, no file is opened and the slot is not replaced.
C9_NoReopenAfterClosing ==
    [][closing =>
          /\ ~(watchPc = "select" /\ watchPc' = "reload")
          /\ cur' = cur /\ nOpened' = nOpened /\ openFails' = openFails]_vars

\* ---- C10
\* C10 (as claimed): when Close has returned, it has closed the handle it loaded
\* and returned the error that closing that handle gave.
C10_CloseReturnsFileError ==
    cl.pc = "returned" => "Close" \in ClosedBy(cl.h) /\ cl.ret = cl.err

\* C11: when the first open fails, New returns the error and no sink: the
\* slot holds no handle, no handle was opened, the signal is not subscribed
\* to (so none is ever buffered), the watch goroutine was never started, and
\* no deferred closure, call or Close exists.
C11_FailedNewLeavesNothing ==
    newErr # "nil" =>
        /\ cur = Null /\ nOpened = 0 /\ nInodes = 0
        /\ \A h \in Handles : ino[h] = 0 /\ closes[h] = <<>>
        /\ ~subscribed /\ sig = 0
        /\ watchPc = "notstarted"
        /\ pending = {} /\ wr = {} /\ done = {} /\ cl = NoClose /\ ~closing

C11_Witness == newErr \in OpenErrs /\ ~ENABLED Next

\* ---- the sink without Write and Sync callers: the signal loop, Close, the
\* deferred closures and time.  Write and Sync touch nothing the loop reads.
LoopNext ==
    \/ Tick
    \/ DeliverSignal
    \/ WatchClosing
    \/ WatchSignal
    \/ ReloadOpenOk
    \/ ReloadOpenFail
    \/ \E t \in pending : DeferredClose(t)
    \/ CloseChan
    \/ CloseGetFile
    \/ CloseFile

\* The Go scheduler runs every runnable goroutine (weak fairness of the
\* steps of watch, of the deferred closures and of a Close in progress; time
\* passes), and a select with several ready cases picks one of them
\* pseudo-randomly, so a case that is ready at infinitely many selects is
\* taken (strong fairness of the two cases).
LoopFairness ==
    /\ WF_vars(Tick)
    /\ WF_vars(ReloadOpenOk \/ ReloadOpenFail)
    /\ WF_vars(\E t \in pending : DeferredClose(t))
    /\ WF_vars(CloseGetFile)
    /\ WF_vars(CloseFile)
    /\ SF_vars(WatchClosing)
    /\ SF_vars(WatchSignal)

LoopSpec == Init /\ [][LoopNext]_vars /\ LoopFairness

\* the model's budget of opens is used up: a reload in progress cannot be
\* modelled further
BudgetOut == nOpened = MaxOpens /\ openFails = MaxOpenFails

\* C12: once Close() has closed ws.closing, the watch goroutine eventually
\* exits (the end of the whole process by a panic counts as exited; a reload
\* that the model's budget of opens cannot finish is left out).
C12_LoopExitsAfterClose ==
    closing ~> \/ watchPc \in {"exited", "gone"}
               \/ watchPc = "reload" /\ BudgetOut


\* the deferred closures still inside their grace interval
Sleeping == {t \in pending : t.left > 0}

\* C13: starting the deferred closure does not hold the loop: the step that
\* starts it puts watch back at the select and adds one task, leaving the
\* earlier ones as they were; at the select a buffered signal can be taken,
\* and in reload the file can be opened, whatever tasks are still sleeping;
\* a task that ends its sleep closes its own handle and leaves the others.
C13_DeferredCloseDoesNotBlockLoop ==
    [][/\ nOpened' > nOpened =>
            /\ watchPc' = "select"
            /\ pending \subseteq pending'
            /\ Cardinality(pending') = Cardinality(pending) + 1
            /\ [h |-> cur, left |-> Grace] \in pending'
       /\ Running /\ watchPc = "select" /\ sig = 1 => ENABLED WatchSignal
       /\ Running /\ watchPc = "reload" /\ nOpened < MaxOpens => ENABLED ReloadOpenOk
       /\ \A t \in pending : t \notin pending' /\ ~panicked' =>
            \/ t.left > 0 /\ pending' = {[h |-> u.h, left |-> Max(u.left - TickStep, 0)] : u \in pending}
            \/ t.left = 0 /\ pending' = pending \ {t}
                          /\ closes' = [closes EXCEPT ![t.h] = Append(@, "deferred")]
      ]_vars

\* a second reopen was fully processed while the first superseded handle is
\* still inside its grace interval: two closures sleep at once
C13_Witness ==
    /\ Cardinality(Sleeping) >= 2
    /\ watchPc = "select"
    /\ \A t \in Sleeping : ~IsClosed(t.h)

\* C14: a deferred closure, once scheduled, is not cancelled: it stays
\* pending (its sleep running down) until it closes its handle, whatever
\* Close() calls are made in the meantime.
C14_PendingClosureNotCancelled ==
    [][\A t \in pending :
          \/ t \in pending'
          \/ [h |-> t.h, left |-> Max(t.left - TickStep, 0)] \in pending'
          \/ t.left = 0 /\ closes'[t.h] = Append(closes[t.h], "deferred")
      ]_vars

\* a step of a Write, Sync or Close call
CallStep == wr' # wr \/ done' # done \/ nCalls' # nCalls \/ cl' # cl \/ nClose' # nClose

\* C15: a step of Write, Sync or Close, failing or not, leaves the current
\* slot as it is, opens no file (no new handle, no new inode, no failed open),
\* puts no signal in the channel and does not send the loop into reload; the
\* slot changes only in the step of reload that opened the file, which
\* publishes the handle just opened.
C15_SlotWrittenByReopenOnly ==
    [][/\ CallStep =>
            /\ cur' = cur /\ nOpened' = nOpened /\ openFails' = openFails
            /\ ino' = ino /\ nInodes' = nInodes
            /\ sig' <= sig
            /\ watchPc' = "reload" => watchPc = "reload"
       /\ cur' # cur =>
            /\ watchPc = "reload" /\ ~CallStep
            /\ nOpened' = nOpened + 1 /\ cur' = nOpened' /\ ino'[cur'] # 0
      ]_vars

\* Write, Sync and Close have all run, some failing and some not, and a
\* reopen has published a new handle
C15_Witness ==
    /\ \E d \in done : d.op = "Write" /\ d.err = "nil"
    /\ \E d \in done : d.op = "Sync" /\ d.err = "ErrClosed"
    /\ cl.pc = "returned"
    /\ cur > 1

\* the loop takes a signal from ws.reopenSig (the end of the process, which
\* discards the buffer, is not a receive)
SignalTaken == sig' < sig /\ ~panicked'

\* a reload ends: its open succeeded or failed
ReloadEnds == nOpened' > nOpened \/ openFails' > openFails

\* C16: reopens are serialized.  A signal is taken only by a loop that is at
\* the select with no reload in progress (Idle), and that step starts the one
\* reload (Swapping); a reload ends only from Swapping, in the step that has
\* the result of the open, and leaves the loop Idle or exited; between the
\* two no signal is taken.  reload's local oldDest is set exactly while the
\* loop is Swapping.
C16_ReopensSerialized ==
    [][/\ SignalTaken => watchPc = "select" /\ oldDest = Null /\ watchPc' = "reload"
       /\ watchPc' = "reload" /\ watchPc # "reload" => SignalTaken
       /\ ReloadEnds => watchPc = "reload" /\ watchPc' \in {"select", "exited"} /\ ~SignalTaken
       /\ watchPc = "reload" /\ watchPc' = "reload" => oldDest' = oldDest /\ sig' >= sig
       /\ (oldDest' # Null) <=> (watchPc' = "reload")
      ]_vars

\* a signal waits in the channel while the loop is inside a second reload
C16_Witness == watchPc = "reload" /\ sig = 1 /\ nOpened > 1

\* C17: no handle receives more than one close call from the sink; Close()
\* and a deferred closure never both close the same handle.
C17_AtMostOneClosePerHandle == \A h \in Handles : Len(closes[h]) <= 1

\* C18: once Close() has returned, the watch goroutine has exited and no
\* deferred closure is pending any more, every handle the sink opened is
\* closed.
C18_NoHandleLeakOnShutdown ==
    cl.pc = "returned" /\ watchPc = "exited" /\ pending = {} =>
        \A h \in 1..nOpened : IsClosed(h)

\* the watch goroutine is running: at the select or inside reload
LoopRunning == watchPc \in {"select", "reload"}

\* C19: a signal delivered to a running loop, with Close() not called, is not
\* lost: while it waits in the channel the loop keeps running (until Close()
\* is called), so that the select takes it and a reopen attempt starts.  A
\* loop that exits with the signal still buffered never starts that attempt:
\* nothing else receives from ws.reopenSig.
C19_LoopKeepsRunningForBufferedSignal ==
    [][sig = 1 /\ ~closing /\ LoopRunning => closing' \/ LoopRunning']_vars


\* Close() has returned and the slot still holds the handle it closed: no
\* reopen was published after Close() loaded the slot
SlotClosedByClose == cl.pc = "returned" /\ cur = cl.h

\* C20: a Write or Sync call that starts when Close() has returned and no
\* reopen was published since loads the handle Close() closed; a closed
\* handle stays closed; and a call that operates on a closed handle returns
\* os.ErrClosed and 0 bytes and appends nothing to any file.  The call does
\* not open a file, change the slot or end the process.
C20_CallAfterCloseFails ==
    [][/\ \A c \in Loading : SlotClosedByClose =>
            c.h = cl.h /\ "Close" \in ClosedBy(c.h)
       /\ \A h \in Handles : IsClosed(h) => closes'[h] # <<>>
       /\ \A c \in Returning : IsClosed(c.h) =>
            /\ Ret(c).err = "ErrClosed" /\ Ret(c).n = 0
            /\ content' = content
       /\ done' # done => cur' = cur /\ nOpened' = nOpened /\ ~panicked'
      ]_vars

\* a Write and a Sync have both failed on the handle that Close() closed and
\* that is still in the slot, after an earlier reopen; no byte was appended
C20_Witness ==
    /\ SlotClosedByClose /\ cur > 1
    /\ closes[cur] = <<"Close">>
    /\ \E d \in done : d.op = "Write" /\ d.h = cur /\ d.err = "ErrClosed"
    /\ \E d \in done : d.op = "Sync" /\ d.h = cur /\ d.err = "ErrClosed"
    /\ BytesFound(MaxOpens) = 0
=============================================================================
